---------------------------- MODULE Spec2Model ----------------------------
(***************************************************************************)
(* Model of gbj_iot/iot.py: the Plugin base class of an MQTT device        *)
(* plugin -- its enumerations, the topic composer, the parameter registry  *)
(* (params) and the publish engine.                                        *)
(*                                                                         *)
(* Python objects are records [cls, s, n]: cls is the object's class, s    *)
(* its string payload (an enumeration member's name, a str's text), n its  *)
(* integer payload.  An enumeration member and the string naming it are    *)
(* therefore different objects, as they are for Python's ==.               *)
(***************************************************************************)
EXTENDS Integers, Sequences, FiniteSets, TLC

\* Bound of the model.
MaxParams == 2      \* the registry holds at most this many records

-----------------------------------------------------------------------------
(* Python objects *)

None == [cls |-> "NoneType", s |-> "", n |-> 0]
IntObj(i) == [cls |-> "int", s |-> "", n |-> i]
StrObj(t) == [cls |-> "str", s |-> t, n |-> 0]
Member(c, name) == [cls |-> c, s |-> name, n |-> 0]

\* The outcome of a call: exc is "" when the call returns, else the name of
\* the exception it raises; val is the returned object.
Return(v) == [exc |-> "", val |-> v]
Raise(e) == [exc |-> e, val |-> None]

-----------------------------------------------------------------------------
(* Enumerations: member name -> wire value *)

Category == [STATUS |-> "state", COMMAND |-> "cmd", DATA |-> "data"]

\* The core's Parameter enumeration has no member; a plugin derives its own.
\* The model's plugin declares two.
Parameter == [TEMP |-> "temp", HUMIDITY |-> "hum"]

Measure ==
  [VALUE |-> "val", DEFAULT |-> "def", MINIMUM |-> "min", MAXIMUM |-> "max",
   AVERAGE |-> "avg", PERCENTILE |-> "ptl", PERCENTAGE |-> "perc"]

Separator == [TOPIC |-> "/"]

\* The plugin's id property (abstract in the core).
id == "did"

\* The enumeration a class name stands for.
EnumOf(c) ==
  CASE c = "Category" -> Category
    [] c = "Parameter" -> Parameter
    [] c = "Measure" -> Measure

\* check_category, check_parameter, check_measure share one body: a member of
\* the enumeration gives its value; anything else is looked up by name, and a
\* KeyError becomes a ValueError.
check_enum(c, x) ==
  IF x.cls = c
    THEN Return(StrObj(EnumOf(c)[x.s]))
    ELSE IF x.cls = "str" /\ x.s \in DOMAIN EnumOf(c)
           THEN Return(StrObj(EnumOf(c)[x.s]))
           ELSE Raise("ValueError")

\* Mutant of check_category: a string is looked up among the wire values, not
\* among the member names.
check_category_by_value(category) ==
  IF category.cls = "Category" THEN Return(StrObj(Category[category.s]))
  ELSE IF category.cls = "str"
          /\ \E name \in DOMAIN Category : Category[name] = category.s
         THEN Return(StrObj(category.s))
         ELSE Raise("ValueError")

check_category(category) == check_enum("Category", category)
check_parameter(parameter) == check_enum("Parameter", parameter)
check_measure(measure) == check_enum("Measure", measure)

-----------------------------------------------------------------------------
(* Strings *)

Digit == <<"0", "1", "2", "3", "4", "5", "6", "7", "8", "9">>

RECURSIVE NatStr(_)
NatStr(i) == IF i < 10 THEN Digit[i + 1]
                       ELSE NatStr(i \div 10) \o Digit[(i % 10) + 1]

\* str(o), as the f-string f'{o}' renders it.
PyStr(o) ==
  CASE o.cls = "int" -> IF o.n < 0 THEN "-" \o NatStr(-o.n) ELSE NatStr(o.n)
    [] o.cls = "str" -> o.s
    [] o.cls = "NoneType" -> "None"
    [] OTHER -> o.cls \o "." \o o.s

\* bool(o): None, 0 and '' are false; an Enum member is always true.
Truthy(o) ==
  CASE o.cls = "NoneType" -> FALSE
    [] o.cls = "int" -> o.n # 0
    [] o.cls = "str" -> o.s # ""
    [] OTHER -> TRUE

\* sep.join(parts)
RECURSIVE Join(_, _)
Join(sep, parts) ==
  IF parts = <<>> THEN ""
  ELSE IF Len(parts) = 1 THEN parts[1]
  ELSE parts[1] \o sep \o Join(sep, Tail(parts))

-----------------------------------------------------------------------------
(* Topic and log composer *)

\* Mutant of get_topic: an absent part is joined as an empty segment.
get_topic_padded(category, parameter, measure) ==
  LET c == check_category(category)
      p == IF Truthy(parameter) THEN check_parameter(parameter) ELSE Return(StrObj(""))
      m == IF Truthy(measure) THEN check_measure(measure) ELSE Return(StrObj(""))
  IN IF c.exc # "" THEN Raise(c.exc)
     ELSE IF p.exc # "" THEN Raise(p.exc)
     ELSE IF m.exc # "" THEN Raise(m.exc)
     ELSE Return(StrObj(Join(Separator.TOPIC, <<id, c.val.s, p.val.s, m.val.s>>)))

get_topic(category, parameter, measure) ==
  LET c == check_category(category)
      p == IF Truthy(parameter) THEN check_parameter(parameter) ELSE Return(None)
      m == IF Truthy(measure) THEN check_measure(measure) ELSE Return(None)
      topic == <<id>>
               \o (IF c.exc = "" THEN <<c.val.s>> ELSE <<>>)
               \o (IF Truthy(parameter) /\ p.exc = "" THEN <<p.val.s>> ELSE <<>>)
               \o (IF Truthy(measure) /\ m.exc = "" THEN <<m.val.s>> ELSE <<>>)
  IN IF c.exc # "" THEN Raise(c.exc)
     ELSE IF p.exc # "" THEN Raise(p.exc)
     ELSE IF m.exc # "" THEN Raise(m.exc)
     ELSE Return(StrObj(Join(Separator.TOPIC, topic)))

get_log(message, category, parameter, measure) ==
  LET p == IF Truthy(parameter) THEN check_parameter(parameter) ELSE Return(None)
      m == IF Truthy(measure) THEN check_measure(measure) ELSE Return(None)
      log0 == category.s
      log1 == IF Truthy(parameter) /\ p.exc = ""
                THEN log0 \o ": parameter='" \o p.val.s \o "'" ELSE log0
      log2 == IF Truthy(measure) /\ m.exc = ""
                THEN log1 \o ", measure='" \o m.val.s \o "'" ELSE log1
  IN IF category.cls # "Category" THEN Raise("AttributeError")
     ELSE IF p.exc # "" THEN Raise(p.exc)
     ELSE IF m.exc # "" THEN Raise(m.exc)
     ELSE Return(StrObj(log2 \o ": " \o message))

-----------------------------------------------------------------------------
(* State *)

VARIABLES
  params,        \* self._params: the registry, a list of PluginData
  database,      \* self._database: the data cache, a list of PluginData
  mqtt_client,   \* self.mqtt_client: None until the application injects one
  lastOp,        \* the most recent call: its arguments, outcome, transport calls
  lastSet,       \* history: key -> value of the latest set_param with that key
  undisturbed,   \* history: key -> no set_param on the key's parameter with the
                 \* other measure presence came after that latest set_param
  setters,       \* thread -> the locals of the set_param call it is in
  publisher      \* the locals of the publish_status call of the timer thread

vars == <<params, database, mqtt_client, lastOp, lastSet, undisturbed,
          setters, publisher>>

\* What the calls of a single-threaded plugin leave alone: the history and
\* the threads' locals.
aside == <<lastSet, undisturbed, setters, publisher>>

PluginData(parameter, measure, value) ==
  [parameter |-> parameter, measure |-> measure, value |-> value]

\* The injected transport handle.
Client == [cls |-> "MqttClient", s |-> "client", n |-> 0]

\* Arguments the model's callers pass.
ParameterArgs == {Member("Parameter", name) : name \in DOMAIN Parameter}
MeasureArgs == {Member("Measure", "VALUE"), Member("Measure", "MAXIMUM"), None}
ValueArgs == {IntObj(5), IntObj(12)}
Keys == ParameterArgs \X MeasureArgs

-----------------------------------------------------------------------------
(* Parameter registry *)

\* The for loop of _find_record from 0-based index i on: the index of the first
\* matching record, or -1 when the loop falls through.
RECURSIVE Scan(_, _, _, _)
Scan(parameter, measure, dataset, i) ==
  IF i >= Len(dataset) THEN -1
  ELSE IF /\ parameter = dataset[i + 1].parameter
          /\ (measure = None \/ measure = dataset[i + 1].measure)
         THEN i
         ELSE Scan(parameter, measure, dataset, i + 1)

\* Mutant of _find_record: the scan keeps the last match, not the first.
RECURSIVE ScanLast(_, _, _, _)
ScanLast(parameter, measure, dataset, i) ==
  IF i < 0 THEN -1
  ELSE IF /\ parameter = dataset[i + 1].parameter
          /\ (measure = None \/ measure = dataset[i + 1].measure)
         THEN i
         ELSE ScanLast(parameter, measure, dataset, i - 1)

find_record_last(parameter, measure, dataset) ==
  LET index == ScanLast(parameter, measure, dataset, Len(dataset) - 1)
  IN IF index >= 0 THEN Return(IntObj(index)) ELSE Raise("ValueError")

_find_record(parameter, measure, dataset) ==
  IF parameter # None /\ check_parameter(parameter).exc # ""
    THEN Raise("ValueError")
  ELSE IF measure # None /\ check_measure(measure).exc # ""
    THEN Raise("ValueError")
  ELSE LET index == Scan(parameter, measure, dataset, 0)
       IN IF index >= 0 THEN Return(IntObj(index)) ELSE Raise("ValueError")

\* Mutant of get_param: the lookup's ValueError is not caught.
get_param_propagates(ps, parameter, measure) ==
  LET index == Scan(parameter, measure, ps, 0)
  IN IF index < 0 THEN Raise("ValueError") ELSE Return(ps[index + 1].value)

get_param(ps, parameter, measure) ==
  LET f == _find_record(parameter, measure, ps)
  IN IF f.exc = "ValueError" THEN Return(None)
     ELSE Return(ps[f.val.n + 1].value)

\* Mutants of set_param: it appends without looking up; it leaves a found
\* record's value alone; it moves a found record to the end; it inserts a new
\* record at the head.
set_param_append(ps, value, parameter, measure) ==
  Append(ps, PluginData(parameter, measure, value))

set_param_keep(ps, value, parameter, measure) ==
  IF Scan(parameter, measure, ps, 0) >= 0 THEN ps
  ELSE Append(ps, PluginData(parameter, measure, value))

set_param_move(ps, value, parameter, measure) ==
  LET index == Scan(parameter, measure, ps, 0)
  IN IF index >= 0
       THEN Append(SubSeq(ps, 1, index) \o SubSeq(ps, index + 2, Len(ps)),
                   [ps[index + 1] EXCEPT !.value = value])
       ELSE Append(ps, PluginData(parameter, measure, value))

set_param_prepend(ps, value, parameter, measure) ==
  LET index == Scan(parameter, measure, ps, 0)
  IN IF index >= 0 THEN [ps EXCEPT ![index + 1].value = value]
     ELSE <<PluginData(parameter, measure, value)>> \o ps

\* Mutant of set_param: a hit stores the call's own parameter and measure in
\* the record along with the value.
set_param_rekey(ps, value, parameter, measure) ==
  LET index == Scan(parameter, measure, ps, 0)
  IN IF index >= 0
       THEN [ps EXCEPT ![index + 1] = PluginData(parameter, measure, value)]
       ELSE Append(ps, PluginData(parameter, measure, value))

\* Mutant of set_param: a miss is swallowed and nothing is stored.
set_param_drops(ps, value, parameter, measure) ==
  LET index == Scan(parameter, measure, ps, 0)
  IN IF index >= 0 THEN [ps EXCEPT ![index + 1].value = value] ELSE ps

\* The registry after set_param.
set_param(ps, value, parameter, measure) ==
  LET f == _find_record(parameter, measure, ps)
  IN IF f.exc = ""
       THEN [ps EXCEPT ![f.val.n + 1].value = value]
       ELSE Append(ps, PluginData(parameter, measure, value))

-----------------------------------------------------------------------------
(* Data cache *)

\* The instance's two lists, as the methods reach them through self.
Self(ps, db) == [_params |-> ps, _database |-> db]

get_value(self, parameter, measure) ==
  LET f == _find_record(parameter, measure, self._database)
  IN IF f.exc = "ValueError" THEN Return(None)
     ELSE Return(self._database[f.val.n + 1].value)

\* Mutant of set_value: it works on the list of parameters.
set_value_shared(self, value, parameter, measure) ==
  LET f == _find_record(parameter, measure, self._params)
  IN IF f.exc = ""
       THEN [self EXCEPT !._params[f.val.n + 1].value = value]
       ELSE [self EXCEPT
               !._params = Append(@, PluginData(parameter, measure, value))]

\* The instance after set_value.
set_value(self, value, parameter, measure) ==
  LET f == _find_record(parameter, measure, self._database)
  IN IF f.exc = ""
       THEN [self EXCEPT !._database[f.val.n + 1].value = value]
       ELSE [self EXCEPT
               !._database = Append(@, PluginData(parameter, measure, value))]

-----------------------------------------------------------------------------
(* Publish engine *)

\* One call of the transport's publish(message, topic).
Call(message, topic) == [message |-> message, topic |-> topic]

\* The outcome of a publish operation: the exception it ends with ("" when it
\* returns) and the transport calls it issued, in order.
Published(exc, calls) == [exc |-> exc, calls |-> calls]

\* Mutants of publish_param: the topic is composed from the call's arguments, not
\* from the record found; a miss publishes the text of None.
publish_param_args(ps, client, parameter, measure, fails) ==
  LET index == Scan(parameter, measure, ps, 0)
      topic == get_topic(Member("Category", "STATUS"), parameter, measure)
  IN IF index < 0 THEN Published("", <<>>)
     ELSE IF client = None THEN Published("AttributeError", <<>>)
     ELSE Published(IF fails THEN "TransportError" ELSE "",
                    <<Call(PyStr(ps[index + 1].value), topic.val.s)>>)

publish_param_blind(ps, client, parameter, measure, fails) ==
  LET index == Scan(parameter, measure, ps, 0)
      value == IF index < 0 THEN None ELSE ps[index + 1].value
      topic == IF index < 0
                 THEN get_topic(Member("Category", "STATUS"), parameter, measure)
                 ELSE get_topic(Member("Category", "STATUS"),
                                ps[index + 1].parameter, ps[index + 1].measure)
  IN IF client = None THEN Published("AttributeError", <<>>)
     ELSE Published(IF fails THEN "TransportError" ELSE "",
                    <<Call(PyStr(value), topic.val.s)>>)

\* publish_param; fails tells whether the transport's publish raises when it
\* is called.
publish_param(ps, client, parameter, measure, fails) ==
  LET f == _find_record(parameter, measure, ps)
  IN IF f.exc = "ValueError" THEN Published("", <<>>)
     ELSE
       LET record == ps[f.val.n + 1]
           message == PyStr(record.value)
           topic == get_topic(Member("Category", "STATUS"),
                              record.parameter, record.measure)
           msg == get_log(message, Member("Category", "STATUS"),
                          record.parameter, record.measure)
       IN IF topic.exc # "" THEN Published(topic.exc, <<>>)
          ELSE IF msg.exc # "" THEN Published(msg.exc, <<>>)
          ELSE IF client = None THEN Published("AttributeError", <<>>)
          ELSE Published(IF fails THEN "TransportError" ELSE "",
                         <<Call(message, topic.val.s)>>)

\* The for loop of publish_status from the i-th record (1-based) on, calls
\* being the transport calls issued so far; the transport raises on its
\* failAt-th call (never when failAt = 0).  An exception leaves the loop.
RECURSIVE PublishFrom(_, _, _, _, _)
PublishFrom(ps, client, failAt, i, calls) ==
  IF i > Len(ps) THEN Published("", calls)
  ELSE LET r == publish_param(ps, client, ps[i].parameter, ps[i].measure,
                              Len(calls) + 1 = failAt)
       IN IF r.exc # "" THEN Published(r.exc, calls \o r.calls)
          ELSE PublishFrom(ps, client, failAt, i + 1, calls \o r.calls)

\* Mutant of publish_status: the loop starts at the second record.
publish_status_skip(ps, client, failAt) == PublishFrom(ps, client, failAt, 2, <<>>)

publish_status(ps, client, failAt) == PublishFrom(ps, client, failAt, 1, <<>>)

-----------------------------------------------------------------------------
(* Dispatch hooks *)

\* The two stores after a hook, and the transport calls the hook made.
Dispatched(ps, db, calls) == [params |-> ps, database |-> db, calls |-> calls]

\* Mutant of process_command: the hook caches the command in the data store.
process_command_caches(ps, db, value, parameter, measure) ==
  Dispatched(ps, <<PluginData(parameter, measure, value)>>, <<>>)

\* The default hooks have an empty body.
process_command(ps, db, value, parameter, measure) == Dispatched(ps, db, <<>>)
process_status(ps, db, value, parameter, measure, device) ==
  Dispatched(ps, db, <<>>)
process_data(ps, db, value, parameter, measure, device) ==
  Dispatched(ps, db, <<>>)

-----------------------------------------------------------------------------
(* Operations *)

Op(name, value, parameter, measure, ret, calls) ==
  [op |-> name, value |-> value, parameter |-> parameter, measure |-> measure,
   ret |-> ret, calls |-> calls]

\* Both arguments have a measure, or neither has.
SamePresence(m1, m2) == (m1 = None) <=> (m2 = None)

\* The threads that call set_param.
Threads == {1, 2}

\* The locals of a set_param call between its lookup and its write; index is
\* the lookup's result, -1 standing for its ValueError.
SetterIdle ==
  [pc |-> "idle", value |-> None, parameter |-> None, measure |-> None,
   index |-> -1]

\* The locals of a publish_status call: i counts the records the for loop has
\* taken, parameter and measure are the taken record's, index the lookup's
\* result, message and topic what publish_param rendered from the record it
\* read; start (the registry's length when the call began) and log (the
\* transport calls that returned) are history.
PublisherIdle ==
  [pc |-> "idle", i |-> 0, parameter |-> None, measure |-> None, index |-> -1,
   message |-> "", topic |-> "", start |-> 0, log |-> <<>>]

Init ==
  /\ params = <<>>
  /\ database = <<>>
  /\ mqtt_client = None
  /\ lastOp = Op("init", None, None, None, Return(None), <<>>)
  /\ lastSet = [k \in Keys |-> None]
  /\ undisturbed = [k \in Keys |-> TRUE]
  /\ setters = [t \in Threads |-> SetterIdle]
  /\ publisher = PublisherIdle

\* The application injects the transport after construction.
AttachClient ==
  /\ mqtt_client = None
  /\ mqtt_client' = Client
  /\ lastOp' = Op("attach", None, None, None, Return(None), <<>>)
  /\ UNCHANGED <<params, database>>

SetParam(value, parameter, measure) ==
  LET ps == set_param(params, value, parameter, measure)
  IN /\ Len(ps) <= MaxParams
     /\ params' = ps
     /\ lastOp' = Op("set_param", value, parameter, measure, Return(None), <<>>)
     /\ UNCHANGED <<database, mqtt_client>>

GetParam(parameter, measure) ==
  /\ lastOp' = Op("get_param", None, parameter, measure,
                  get_param(params, parameter, measure), <<>>)
  /\ UNCHANGED <<params, database, mqtt_client>>

PublishParam(parameter, measure, fails) ==
  LET r == publish_param(params, mqtt_client, parameter, measure, fails)
  IN /\ lastOp' = Op("publish_param", None, parameter, measure,
                     IF r.exc = "" THEN Return(None) ELSE Raise(r.exc), r.calls)
     /\ UNCHANGED <<params, database, mqtt_client>>

PublishStatus(failAt) ==
  LET r == publish_status(params, mqtt_client, failAt)
  IN /\ lastOp' = Op("publish_status", None, None, None,
                     IF r.exc = "" THEN Return(None) ELSE Raise(r.exc), r.calls)
     /\ UNCHANGED <<params, database, mqtt_client>>

\* What the dispatcher hands to a hook: the message payload, the topic's
\* parameter and measure segments (each may be missing) and the sending device.
HookValues == {StrObj("ON")}
HookTails == {<<None, None>>, <<StrObj("temp"), StrObj("val")>>}
Device == [cls |-> "Plugin", s |-> "other", n |-> 0]

Dispatch(name, value, parameter, measure, r) ==
  /\ params' = r.params
  /\ database' = r.database
  /\ lastOp' = Op(name, value, parameter, measure, Return(None), r.calls)
  /\ UNCHANGED mqtt_client

ProcessCommand(value, parameter, measure) ==
  Dispatch("process_command", value, parameter, measure,
           process_command(params, database, value, parameter, measure))

ProcessStatus(value, parameter, measure, device) ==
  Dispatch("process_status", value, parameter, measure,
           process_status(params, database, value, parameter, measure, device))

ProcessData(value, parameter, measure, device) ==
  Dispatch("process_data", value, parameter, measure,
           process_data(params, database, value, parameter, measure, device))

Next ==
  \/ AttachClient /\ UNCHANGED aside
  \/ \E v \in ValueArgs, p \in ParameterArgs, m \in MeasureArgs :
       SetParam(v, p, m) /\ UNCHANGED aside
  \/ \E p \in ParameterArgs, m \in MeasureArgs :
       GetParam(p, m) /\ UNCHANGED aside
  \/ \E p \in ParameterArgs, m \in MeasureArgs, fails \in BOOLEAN :
       PublishParam(p, m, fails) /\ UNCHANGED aside
  \/ \E failAt \in 0..Len(params) :
       PublishStatus(failAt) /\ UNCHANGED aside
  \/ \E v \in HookValues, t \in HookTails :
       ProcessCommand(v, t[1], t[2]) /\ UNCHANGED aside
  \/ \E v \in HookValues, t \in HookTails :
       ProcessStatus(v, t[1], t[2], Device) /\ UNCHANGED aside
  \/ \E v \in HookValues, t \in HookTails :
       ProcessData(v, t[1], t[2], Device) /\ UNCHANGED aside

Spec == Init /\ [][Next]_vars

\* The history of the set_param calls: the value each key was last set to, and
\* whether a later call on the key's parameter had the other measure presence.
Record(value, parameter, measure) ==
  /\ lastSet' = [lastSet EXCEPT ![<<parameter, measure>>] = value]
  /\ undisturbed' =
       [k \in Keys |->
          IF k = <<parameter, measure>> THEN TRUE
          ELSE IF k[1] = parameter /\ ~SamePresence(k[2], measure) THEN FALSE
          ELSE undisturbed[k]]

\* The registry's two operations, with the history of the set_param calls.
NextRegistry ==
  \/ \E v \in ValueArgs, p \in ParameterArgs, m \in MeasureArgs :
       SetParam(v, p, m) /\ Record(v, p, m) /\ UNCHANGED <<setters, publisher>>
  \/ \E p \in ParameterArgs, m \in MeasureArgs :
       GetParam(p, m) /\ UNCHANGED aside

SpecRegistry == Init /\ [][NextRegistry]_vars

\* What a caller hands to the composer as a category, a parameter and a
\* measure: members, strings naming a member, other strings, or nothing.
CategoryTokens ==
  {Member("Category", name) : name \in DOMAIN Category}
    \cup {StrObj("STATUS"), StrObj("state"), StrObj("bogus")}
ParameterTokens == ParameterArgs \cup {None, StrObj("TEMP"), StrObj("bogus")}
MeasureTokens == MeasureArgs \cup {StrObj("MAXIMUM"), StrObj("bogus")}

\* In lastOp, value holds the first argument of the call: the category of
\* check_category and of get_topic.
CheckCategory(category) ==
  /\ lastOp' = Op("check_category", category, None, None,
                  check_category(category), <<>>)
  /\ UNCHANGED <<params, database, mqtt_client>>

GetTopic(category, parameter, measure) ==
  /\ lastOp' = Op("get_topic", category, parameter, measure,
                  get_topic(category, parameter, measure), <<>>)
  /\ UNCHANGED <<params, database, mqtt_client>>

NextComposer ==
  \/ \E c \in CategoryTokens : CheckCategory(c) /\ UNCHANGED aside
  \/ \E c \in CategoryTokens, p \in ParameterTokens, m \in MeasureTokens :
       GetTopic(c, p, m) /\ UNCHANGED aside

SpecComposer == Init /\ [][NextComposer]_vars

GetValue(parameter, measure) ==
  /\ lastOp' = Op("get_value", None, parameter, measure,
                  get_value(Self(params, database), parameter, measure), <<>>)
  /\ UNCHANGED <<params, database, mqtt_client>>

SetValue(value, parameter, measure) ==
  LET self == set_value(Self(params, database), value, parameter, measure)
  IN /\ Len(self._params) <= MaxParams
     /\ Len(self._database) <= MaxParams
     /\ params' = self._params
     /\ database' = self._database
     /\ lastOp' = Op("set_value", value, parameter, measure, Return(None), <<>>)
     /\ UNCHANGED mqtt_client

\* The measures the callers of the two stores write and read.
StoreMeasures == {Member("Measure", "VALUE")}
LookupMeasures == {Member("Measure", "VALUE"), None}

\* Every operation on the parameters and on the data cache.
NextStores ==
  \/ AttachClient /\ UNCHANGED aside
  \/ \E v \in ValueArgs, p \in ParameterArgs, m \in StoreMeasures :
       SetParam(v, p, m) /\ UNCHANGED aside
  \/ \E p \in ParameterArgs, m \in LookupMeasures :
       GetParam(p, m) /\ UNCHANGED aside
  \/ \E v \in ValueArgs, p \in ParameterArgs, m \in StoreMeasures :
       SetValue(v, p, m) /\ UNCHANGED aside
  \/ \E p \in ParameterArgs, m \in LookupMeasures :
       GetValue(p, m) /\ UNCHANGED aside
  \/ \E p \in ParameterArgs, m \in StoreMeasures, fails \in BOOLEAN :
       PublishParam(p, m, fails) /\ UNCHANGED aside
  \/ \E failAt \in 0..Len(params) :
       PublishStatus(failAt) /\ UNCHANGED aside
  \/ \E v \in HookValues, t \in HookTails :
       ProcessCommand(v, t[1], t[2]) /\ UNCHANGED aside
  \/ \E v \in HookValues, t \in HookTails :
       ProcessStatus(v, t[1], t[2], Device) /\ UNCHANGED aside
  \/ \E v \in HookValues, t \in HookTails :
       ProcessData(v, t[1], t[2], Device) /\ UNCHANGED aside

SpecStores == Init /\ [][NextStores]_vars

\* Callers that pass a token, typed or not, known or not.
TokenParameters == {Member("Parameter", "TEMP"), StrObj("bogus")}
TokenMeasures == {Member("Measure", "VALUE"), StrObj("bogus"), None}

NextTokens ==
  \/ \E v \in ValueArgs, p \in TokenParameters, m \in TokenMeasures :
       SetParam(v, p, m) /\ UNCHANGED aside
  \/ \E p \in TokenParameters, m \in TokenMeasures :
       GetParam(p, m) /\ UNCHANGED aside

SpecTokens == Init /\ [][NextTokens]_vars

-----------------------------------------------------------------------------
(* Operations in steps: calls of several threads interleave between the
   lookup and the use of its result *)

\* set_param up to the return of _find_record.  A miss is taken only while the
\* registry, with the appends already pending, has room for one more record.
SetLookup(t, value, parameter, measure) ==
  LET f == _find_record(parameter, measure, params)
      pending == Cardinality({u \in Threads : /\ setters[u].pc = "write"
                                              /\ setters[u].index < 0})
  IN /\ setters[t].pc = "idle"
     /\ f.exc # "" => Len(params) + pending < MaxParams
     /\ setters' = [setters EXCEPT ![t] =
                      [pc |-> "write", value |-> value, parameter |-> parameter,
                       measure |-> measure,
                       index |-> IF f.exc = "" THEN f.val.n ELSE -1]]
     /\ UNCHANGED <<params, database, mqtt_client, lastOp>>

\* Mutant of SetWrite: a new record is inserted at the head of the registry.
SetWriteFront(t) ==
  LET my == setters[t]
  IN /\ my.pc = "write"
     /\ params' = IF my.index >= 0
                    THEN [params EXCEPT ![my.index + 1].value = my.value]
                    ELSE <<PluginData(my.parameter, my.measure, my.value)>>
                           \o params
     /\ setters' = [setters EXCEPT ![t] = SetterIdle]
     /\ lastOp' = Op("set_param", my.value, my.parameter, my.measure,
                     Return(None), <<>>)
     /\ UNCHANGED <<database, mqtt_client>>

\* set_param from there: the overwrite of the found record's value, or the
\* append in the except clause; the call returns.
SetWrite(t) ==
  LET my == setters[t]
  IN /\ my.pc = "write"
     /\ params' = IF my.index >= 0
                    THEN [params EXCEPT ![my.index + 1].value = my.value]
                    ELSE Append(params,
                                PluginData(my.parameter, my.measure, my.value))
     /\ setters' = [setters EXCEPT ![t] = SetterIdle]
     /\ lastOp' = Op("set_param", my.value, my.parameter, my.measure,
                     Return(None), <<>>)
     /\ UNCHANGED <<database, mqtt_client>>

\* Two threads call set_param.
NextSetters ==
  \/ \E t \in Threads, v \in ValueArgs, p \in ParameterArgs,
         m \in LookupMeasures :
       SetLookup(t, v, p, m) /\ UNCHANGED <<lastSet, undisturbed, publisher>>
  \/ \E t \in Threads :
       SetWrite(t) /\ UNCHANGED <<lastSet, undisturbed, publisher>>

SpecSetters == Init /\ [][NextSetters]_vars

\* publish_status is called: the for loop takes an iterator over the registry.
PubStart ==
  /\ publisher.pc \in {"idle", "done", "raised"}
  /\ publisher' = [PublisherIdle EXCEPT !.pc = "next", !.start = Len(params)]
  /\ UNCHANGED <<params, database, mqtt_client, lastOp>>

\* The loop takes the next record, if the registry has one at the iterator's
\* position, and calls publish_param with its parameter and measure; else
\* publish_status returns.
PubNext ==
  /\ publisher.pc = "next"
  /\ publisher' =
       IF publisher.i < Len(params)
         THEN [publisher EXCEPT
                 !.pc = "lookup",
                 !.parameter = params[publisher.i + 1].parameter,
                 !.measure = params[publisher.i + 1].measure,
                 !.i = @ + 1]
         ELSE [publisher EXCEPT !.pc = "done"]
  /\ lastOp' = IF publisher.i < Len(params) THEN lastOp
               ELSE Op("publish_status", None, None, None, Return(None),
                       publisher.log)
  /\ UNCHANGED <<params, database, mqtt_client>>

\* publish_param up to the return of _find_record; a miss returns to the loop.
PubLookup ==
  LET f == _find_record(publisher.parameter, publisher.measure, params)
  IN /\ publisher.pc = "lookup"
     /\ publisher' = IF f.exc = ""
                       THEN [publisher EXCEPT !.pc = "read", !.index = f.val.n]
                       ELSE [publisher EXCEPT !.pc = "next"]
     /\ UNCHANGED <<params, database, mqtt_client, lastOp>>

\* publish_param reads the record at the index and renders message and topic;
\* an index past the end of the registry raises IndexError.
PubRead ==
  /\ publisher.pc = "read"
  /\ publisher' =
       IF publisher.index < Len(params)
         THEN LET record == params[publisher.index + 1]
              IN [publisher EXCEPT
                    !.pc = "publish",
                    !.message = PyStr(record.value),
                    !.topic = get_topic(Member("Category", "STATUS"),
                                        record.parameter, record.measure).val.s]
         ELSE [publisher EXCEPT !.pc = "raised"]
  /\ UNCHANGED <<params, database, mqtt_client, lastOp>>

\* publish_param calls the transport: without a transport, or when its
\* publish raises, the exception leaves publish_status.
PubPublish(fails) ==
  /\ publisher.pc = "publish"
  /\ publisher' =
       IF mqtt_client = None \/ fails
         THEN [publisher EXCEPT !.pc = "raised"]
         ELSE [publisher EXCEPT
                 !.pc = "next",
                 !.log = Append(@, Call(publisher.message, publisher.topic))]
  /\ UNCHANGED <<params, database, mqtt_client, lastOp>>

\* The thread that calls set_param while publish_status runs in another.
Setter == 1

NextPublisher ==
  \/ AttachClient /\ UNCHANGED aside
  \/ \E v \in ValueArgs, p \in ParameterArgs, m \in LookupMeasures :
       SetLookup(Setter, v, p, m)
         /\ UNCHANGED <<lastSet, undisturbed, publisher>>
  \/ SetWrite(Setter) /\ UNCHANGED <<lastSet, undisturbed, publisher>>
  \/ PubStart /\ UNCHANGED <<lastSet, undisturbed, setters>>
  \/ PubNext /\ UNCHANGED <<lastSet, undisturbed, setters>>
  \/ PubLookup /\ UNCHANGED <<lastSet, undisturbed, setters>>
  \/ PubRead /\ UNCHANGED <<lastSet, undisturbed, setters>>
  \/ \E fails \in BOOLEAN :
       PubPublish(fails) /\ UNCHANGED <<lastSet, undisturbed, setters>>

SpecPublisher == Init /\ [][NextPublisher]_vars

TypeOK ==
  /\ Len(params) <= MaxParams
  /\ Len(database) <= MaxParams
  /\ mqtt_client \in {None, Client}

-----------------------------------------------------------------------------
(* Properties of the registry *)

\* Every step that changes the state is a call, and leaves in lastOp' the
\* operation called and its arguments: a property of the steps of one
\* operation reads them there.

TEMP == Member("Parameter", "TEMP")
HUMIDITY == Member("Parameter", "HUMIDITY")
VALUE == Member("Measure", "VALUE")
MAXIMUM == Member("Measure", "MAXIMUM")

KeyOf(record) == <<record.parameter, record.measure>>

\* The 1-based positions of the records of ps a lookup of (parameter, measure)
\* matches: same parameter, and the measure absent from the query or the same.
MatchIdx(ps, parameter, measure) ==
  {i \in 1..Len(ps) : /\ ps[i].parameter = parameter
                      /\ (measure = None \/ ps[i].measure = measure)}

Lowest(S) == CHOOSE i \in S : \A j \in S : i <= j

\* C1: the registry never holds two records with the same (parameter,
\* measure) pair, whatever set_param calls with a Parameter member and a
\* Measure member or None were made.
C1_UniqueKeys ==
  \A i, j \in 1..Len(params) : i # j => KeyOf(params[i]) # KeyOf(params[j])

\* A key was set again while the registry held two records of its parameter.
C1_Witness ==
  /\ lastOp.op = "set_param"
  /\ Len(params) = 2
  /\ params[1].parameter = params[2].parameter
  /\ <<lastOp.parameter, lastOp.measure>> = KeyOf(params[1])

\* C2 as amended: for a key that was set, and with no later set_param on the
\* same parameter whose measure is absent where the key's is present or
\* present where the key's is absent, get_param returns the value of the latest
\* set_param with that key.
C2_LatestUndisturbedSet ==
  /\ \A k \in Keys :
       (lastSet[k] # None /\ undisturbed[k])
         => get_param(params, k[1], k[2]) = Return(lastSet[k])
  /\ lastOp.op = "get_param"
       => LET k == <<lastOp.parameter, lastOp.measure>>
          IN (lastSet[k] # None /\ undisturbed[k]) => lastOp.ret = Return(lastSet[k])

\* get_param of a key with a measure returned that key's latest value after
\* the same parameter had also been set with the measure absent.
C2_Witness ==
  /\ lastOp.op = "get_param"
  /\ lastOp.parameter = TEMP /\ lastOp.measure = VALUE
  /\ lastSet[<<TEMP, VALUE>>] = IntObj(12)
  /\ undisturbed[<<TEMP, VALUE>>]
  /\ lastSet[<<TEMP, None>>] = IntObj(5)
  /\ lastOp.ret = Return(IntObj(12))

\* C2 as stated: get_param of any key that was set returns the value of the
\* latest set_param with that key, also when calls with and without a measure
\* are mixed on one parameter.
C2_Original ==
  lastOp.op = "get_param"
    => LET k == <<lastOp.parameter, lastOp.measure>>
       IN lastSet[k] # None => lastOp.ret = Return(lastSet[k])

Defaults == {IntObj(-1), IntObj(0)}

C4_OverwriteInPlace ==
  [][(lastOp'.op = "set_param"
        /\ MatchIdx(params, lastOp'.parameter, lastOp'.measure) # {})
       => LET i == Lowest(MatchIdx(params, lastOp'.parameter, lastOp'.measure))
          IN /\ Len(params') = Len(params)
             /\ KeyOf(params'[i]) = KeyOf(params[i])
             /\ params'[i].value = lastOp'.value
             /\ \A j \in 1..Len(params) : j # i => params'[j] = params[j]
             /\ Cardinality({j \in 1..Len(params') :
                               KeyOf(params'[j]) = KeyOf(params[i])}) = 1
             /\ lastOp'.ret = Return(None)]_vars

\* The first of two records was set a second time.
C4_Witness ==
  /\ lastOp = Op("set_param", IntObj(12), TEMP, VALUE, Return(None), <<>>)
  /\ params = <<PluginData(TEMP, VALUE, IntObj(12)),
                PluginData(TEMP, MAXIMUM, IntObj(5))>>

\* C5: set_param on a key that no record matches appends exactly one record
\* (parameter, measure, value), leaves every earlier record in place and does
\* not raise.
C5_AppendOnMiss ==
  [][(lastOp'.op = "set_param"
        /\ MatchIdx(params, lastOp'.parameter, lastOp'.measure) = {})
       => /\ Len(params') = Len(params) + 1
          /\ params'[Len(params')] =
               PluginData(lastOp'.parameter, lastOp'.measure, lastOp'.value)
          /\ \A j \in 1..Len(params) : params'[j] = params[j]
          /\ lastOp'.ret = Return(None)]_vars

\* A second measure of a parameter was set after the first.
C5_Witness ==
  /\ lastOp = Op("set_param", IntObj(12), TEMP, MAXIMUM, Return(None), <<>>)
  /\ params = <<PluginData(TEMP, VALUE, IntObj(5)),
                PluginData(TEMP, MAXIMUM, IntObj(12))>>

\* C6: a lookup without a measure returns the value of the lowest-index record
\* of the parameter, a lookup with a measure that of the lowest-index record
\* equal in parameter and measure.
C6_FirstMatchWins ==
  /\ \A p \in ParameterArgs :
       LET S == {i \in 1..Len(params) : params[i].parameter = p}
       IN S # {} => get_param(params, p, None) = Return(params[Lowest(S)].value)
  /\ \A p \in ParameterArgs, m \in MeasureArgs \ {None} :
       LET S == {i \in 1..Len(params) : KeyOf(params[i]) = <<p, m>>}
       IN S # {} => get_param(params, p, m) = Return(params[Lowest(S)].value)
  /\ (lastOp.op = "get_param"
        /\ MatchIdx(params, lastOp.parameter, lastOp.measure) # {})
       => lastOp.ret =
            Return(params[Lowest(MatchIdx(params, lastOp.parameter,
                                          lastOp.measure))].value)

\* After set(5, TEMP, VALUE) and set(12, TEMP, MAXIMUM), get_param(TEMP, None)
\* returned 5.
C6_Witness ==
  /\ lastOp = Op("get_param", None, TEMP, None, Return(IntObj(5)), <<>>)
  /\ params = <<PluginData(TEMP, VALUE, IntObj(5)),
                PluginData(TEMP, MAXIMUM, IntObj(12))>>

-----------------------------------------------------------------------------
(* Properties of the publish engine *)

\* The decimal text of the values the model's callers set.
Text(value) ==
  CASE value = IntObj(5) -> "5"
    [] value = IntObj(12) -> "12"

\* '<id>/state/<parameter wire token>[/<measure wire token>]'
StateTopic(parameter, measure) ==
  "did/state/"
    \o (CASE parameter = TEMP -> "temp" [] parameter = HUMIDITY -> "hum")
    \o (CASE measure = None -> ""
          [] measure = VALUE -> "/val"
          [] measure = MAXIMUM -> "/max")

\* C7: with a transport injected and its publish returning, publish_status
\* issues one publish call per registry record, in insertion order, the i-th
\* with the text of record i's value and the state topic of record i's
\* parameter and measure.
C7_PublishStatusInOrder ==
  (lastOp.op = "publish_status" /\ mqtt_client # None
     /\ lastOp.ret.exc # "TransportError")
    => /\ lastOp.ret = Return(None)
       /\ lastOp.calls =
            [i \in 1..Len(params) |->
               Call(Text(params[i].value),
                    StateTopic(params[i].parameter, params[i].measure))]

\* publish_status published two records of one parameter, the first stored
\* without a measure.
C7_Witness ==
  /\ lastOp.op = "publish_status"
  /\ params = <<PluginData(TEMP, None, IntObj(12)),
                PluginData(TEMP, VALUE, IntObj(5))>>
  /\ lastOp.calls = <<Call("12", "did/state/temp"), Call("5", "did/state/temp/val")>>

\* C8: publish_status invokes the transport's publish for every record of the
\* registry, in insertion order, also when publish raised for an earlier one.
C8_FailureDoesNotBlock ==
  (lastOp.op = "publish_status" /\ mqtt_client # None)
    => lastOp.calls =
         [i \in 1..Len(params) |->
            Call(Text(params[i].value),
                 StateTopic(params[i].parameter, params[i].measure))]

\* C9 as amended: on a hit, with a transport injected, publish_param calls the
\* transport once, with the text of the matched record's value and the state
\* topic of the matched record's parameter and measure.
C9_PublishesMatchedRecord ==
  (lastOp.op = "publish_param" /\ mqtt_client # None
     /\ MatchIdx(params, lastOp.parameter, lastOp.measure) # {})
    => LET record == params[Lowest(MatchIdx(params, lastOp.parameter,
                                            lastOp.measure))]
       IN /\ lastOp.calls = <<Call(Text(record.value),
                                   StateTopic(record.parameter, record.measure))>>
          /\ lastOp.ret.exc \in {"", "TransportError"}

\* publish_param(TEMP, None) published the record stored as (TEMP, VALUE).
C9_Witness ==
  /\ lastOp.op = "publish_param"
  /\ lastOp.parameter = TEMP /\ lastOp.measure = None
  /\ params = <<PluginData(TEMP, VALUE, IntObj(5))>>
  /\ lastOp.calls = <<Call("5", "did/state/temp/val")>>

\* C9 as stated: the topic is composed from the call's own parameter and
\* measure, also for a call without a measure that matches a record stored
\* with one.
C9_Original ==
  (lastOp.op = "publish_param" /\ mqtt_client # None
     /\ MatchIdx(params, lastOp.parameter, lastOp.measure) # {})
    => LET record == params[Lowest(MatchIdx(params, lastOp.parameter,
                                            lastOp.measure))]
       IN lastOp.calls = <<Call(Text(record.value),
                                StateTopic(lastOp.parameter, lastOp.measure))>>

\* C10: publish_param on a key that no record matches issues no transport
\* call, raises nothing and leaves the registry as it was, with or without a
\* transport and whatever the transport would do.
C10_MissIsNoOp ==
  [][(lastOp'.op = "publish_param"
        /\ MatchIdx(params, lastOp'.parameter, lastOp'.measure) = {})
       => /\ lastOp'.calls = <<>>
          /\ lastOp'.ret = Return(None)
          /\ params' = params]_vars

\* publish_param missed on a registry holding another parameter's record, no
\* transport being injected.
C10_Witness ==
  /\ lastOp = Op("publish_param", None, HUMIDITY, VALUE, Return(None), <<>>)
  /\ params = <<PluginData(TEMP, VALUE, IntObj(5))>>
  /\ mqtt_client = None

-----------------------------------------------------------------------------
(* Properties of the enumerations and of the topic composer *)

STATUS == Member("Category", "STATUS")

\* The wire token of a member, read off the enumerations' declarations.
WireToken(cls, name) ==
  CASE cls = "Category" ->
         (CASE name = "STATUS" -> "state" [] name = "COMMAND" -> "cmd"
            [] name = "DATA" -> "data")
    [] cls = "Parameter" ->
         (CASE name = "TEMP" -> "temp" [] name = "HUMIDITY" -> "hum")
    [] cls = "Measure" ->
         (CASE name = "VALUE" -> "val" [] name = "DEFAULT" -> "def"
            [] name = "MINIMUM" -> "min" [] name = "MAXIMUM" -> "max"
            [] name = "AVERAGE" -> "avg" [] name = "PERCENTILE" -> "ptl"
            [] name = "PERCENTAGE" -> "perc")

MemberNames(cls) ==
  CASE cls = "Category" -> {"STATUS", "COMMAND", "DATA"}
    [] cls = "Parameter" -> {"TEMP", "HUMIDITY"}
    [] cls = "Measure" -> {"VALUE", "DEFAULT", "MINIMUM", "MAXIMUM", "AVERAGE",
                          "PERCENTILE", "PERCENTAGE"}

\* x is a member of the enumeration cls, or a string naming one.
Resolves(cls, x) ==
  \/ x.cls = cls
  \/ x.cls = "str" /\ x.s \in MemberNames(cls)

\* C11 as amended: check_category gives the wire value of a Category member and
\* of a string that is a member's name ("STATUS" gives 'state'); any other
\* string, "bogus" and also the wire value "state", raises ValueError.
C11_ResolvesMembersAndNames ==
  lastOp.op = "check_category"
    => /\ Resolves("Category", lastOp.value)
            => lastOp.ret = Return(StrObj(WireToken("Category", lastOp.value.s)))
       /\ ~Resolves("Category", lastOp.value) => lastOp.ret = Raise("ValueError")
       /\ lastOp.value \in {STATUS, StrObj("STATUS")}
            => lastOp.ret = Return(StrObj("state"))
       /\ lastOp.value \in {StrObj("state"), StrObj("bogus")}
            => lastOp.ret = Raise("ValueError")

\* check_category("state") raised ValueError.
C11_Witness ==
  lastOp = Op("check_category", StrObj("state"), None, None,
              Raise("ValueError"), <<>>)

\* C11 as stated: the STATUS member and the string "state" both resolve to
\* 'state', and "bogus" fails with ValueError.
C11_Original ==
  lastOp.op = "check_category"
    => /\ lastOp.value \in {STATUS, StrObj("state")}
            => lastOp.ret = Return(StrObj("state"))
       /\ lastOp.value = StrObj("bogus") => lastOp.ret = Raise("ValueError")

\* C12: for a category, and a parameter and a measure each given (as a member
\* or a member's name) or absent, get_topic returns the device id, the category
\* token, the parameter token iff a parameter is given and the measure token
\* iff a measure is given, joined by single '/': no segment is empty.
C12_TopicSegments ==
  (lastOp.op = "get_topic"
     /\ Resolves("Category", lastOp.value)
     /\ (lastOp.parameter = None \/ Resolves("Parameter", lastOp.parameter))
     /\ (lastOp.measure = None \/ Resolves("Measure", lastOp.measure)))
    => lastOp.ret =
         Return(StrObj(
           "did/" \o WireToken("Category", lastOp.value.s)
             \o (IF lastOp.parameter = None THEN ""
                 ELSE "/" \o WireToken("Parameter", lastOp.parameter.s))
             \o (IF lastOp.measure = None THEN ""
                 ELSE "/" \o WireToken("Measure", lastOp.measure.s))))

\* get_topic(STATUS, None, MAXIMUM) returned 'did/state/max'.
C12_Witness ==
  lastOp = Op("get_topic", STATUS, None, MAXIMUM,
              Return(StrObj("did/state/max")), <<>>)

-----------------------------------------------------------------------------
(* Properties of the registry under every operation *)

Hooks == {"process_command", "process_status", "process_data"}

\* C13: in every step of set_param, get_param, publish_param, publish_status
\* and the dispatch hooks the registry does not get shorter, every record stays
\* at its index with its parameter and measure, and the registry changes only
\* in a set_param step.
C13_AppendOrUpdateOnly ==
  [][/\ Len(params') >= Len(params)
     /\ \A i \in 1..Len(params) : KeyOf(params'[i]) = KeyOf(params[i])
     /\ params' # params => lastOp'.op = "set_param"]_vars

\* A hook has just run on a registry of two records or more whose record at
\* index 0 is (TEMP, VALUE, 12).
C13_Witness ==
  /\ Len(params) >= 2
  /\ params[1] = PluginData(TEMP, VALUE, IntObj(12))
  /\ lastOp.op \in Hooks

\* C14: a step of process_command, process_status or process_data leaves the
\* parameters, the data cache and the transport as they were, calls the
\* transport's publish not once, and returns None whatever was dispatched
\* before.
C14_HooksAreNoOps ==
  [][lastOp'.op \in Hooks
       => /\ params' = params
          /\ database' = database
          /\ mqtt_client' = mqtt_client
          /\ lastOp'.calls = <<>>
          /\ lastOp'.ret = Return(None)]_vars

\* process_status has run on an instance with a transport, a parameter and a
\* cached data record.
C14_Witness ==
  /\ lastOp.op = "process_status"
  /\ params # <<>>
  /\ database # <<>>
  /\ mqtt_client = Client

-----------------------------------------------------------------------------
(* Properties of the two stores *)

\* The value a lookup of (parameter, measure) reads from dataset.
Looked(dataset, parameter, measure) ==
  IF MatchIdx(dataset, parameter, measure) = {} THEN None
  ELSE dataset[Lowest(MatchIdx(dataset, parameter, measure))].value

\* C19: set_value leaves params as it was and set_param leaves database as it
\* was; get_param returns what params holds and get_value what database holds;
\* every publish call of publish_param and publish_status carries a record of
\* params, and none carries the topic of a key that only database holds.
C19_StoresIndependent ==
  [][/\ lastOp'.op = "set_value" => params' = params
     /\ lastOp'.op = "set_param" => database' = database
     /\ lastOp'.op = "get_param"
          => lastOp'.ret = Return(Looked(params, lastOp'.parameter,
                                         lastOp'.measure))
     /\ lastOp'.op = "get_value"
          => lastOp'.ret = Return(Looked(database, lastOp'.parameter,
                                         lastOp'.measure))
     /\ lastOp'.op \in {"publish_param", "publish_status"}
          => \A c \in 1..Len(lastOp'.calls) :
               /\ \E i \in 1..Len(params) :
                    lastOp'.calls[c] =
                      Call(Text(params[i].value),
                           StateTopic(params[i].parameter, params[i].measure))
               /\ \A j \in 1..Len(database) :
                    (\A i \in 1..Len(params) :
                       KeyOf(params[i]) # KeyOf(database[j]))
                      => lastOp'.calls[c].topic
                           # StateTopic(database[j].parameter,
                                        database[j].measure)]_vars

\* publish_status has published the one parameter while the data cache holds
\* a record under another key.
C19_Witness ==
  /\ lastOp.op = "publish_status"
  /\ Len(params) = 1
  /\ Len(lastOp.calls) = 1
  /\ \E j \in 1..Len(database) : KeyOf(database[j]) # KeyOf(params[1])

-----------------------------------------------------------------------------
(* Properties of the registry under unknown tokens *)

\* x is given and is neither a member of the enumeration cls nor a member's
\* name.
Unknown(cls, x) == x # None /\ ~Resolves(cls, x)

\* C15: a set_param or get_param call whose parameter or measure is an unknown
\* token ends with ValueError and leaves the registry as it was (so repeating
\* the call adds no record).
C15_UnknownTokenRejected ==
  [][(/\ lastOp'.op \in {"set_param", "get_param"}
      /\ \/ Unknown("Parameter", lastOp'.parameter)
         \/ Unknown("Measure", lastOp'.measure))
       => /\ lastOp'.ret = Raise("ValueError")
          /\ params' = params]_vars

\* C16: with a typed parameter and a typed or absent measure, get_param and
\* set_param end without an exception; a get_param that matches no record
\* returns None, and after a set_param the lookup of its arguments finds a
\* record holding its value (inserted when there was none).
C16_NotFoundNeverSurfaces ==
  (/\ lastOp.op \in {"get_param", "set_param"}
   /\ lastOp.parameter \in ParameterArgs
   /\ lastOp.measure \in MeasureArgs)
    => LET found == MatchIdx(params, lastOp.parameter, lastOp.measure)
       IN /\ lastOp.ret.exc = ""
          /\ (lastOp.op = "get_param" /\ found = {}) => lastOp.ret.val = None
          /\ lastOp.op = "set_param"
               => /\ found # {}
                  /\ params[Lowest(found)].value = lastOp.value

\* set_param(12, TEMP, MAXIMUM) has inserted a second record behind
\* (TEMP, VALUE, 5).
C16_Witness ==
  /\ lastOp = Op("set_param", IntObj(12), TEMP, MAXIMUM, Return(None), <<>>)
  /\ params = <<PluginData(TEMP, VALUE, IntObj(5)),
                PluginData(TEMP, MAXIMUM, IntObj(12))>>

-----------------------------------------------------------------------------
(* Properties of the registry under interleaved calls *)

\* C17: while set_param calls of two threads interleave between lookup and
\* write, the registry holds as many distinct (parameter, measure) pairs as
\* it holds records.
C17_UniqueUnderInterleaving ==
  Cardinality({KeyOf(params[i]) : i \in 1..Len(params)}) = Len(params)

\* The index a call holds is in range and its record is one the call's lookup
\* matches.
Refers(call) ==
  /\ call.index < Len(params)
  /\ params[call.index + 1].parameter = call.parameter
  /\ call.measure = None \/ params[call.index + 1].measure = call.measure

\* C18: while publish_status interleaves with the set_param calls of another
\* thread, the index publish_param is about to read with is in range and is
\* the index of a record with the looked-up parameter and measure, the index
\* set_param is about to overwrite with is in range and is the index of a
\* record its lookup matches, and when publish_status returns the transport
\* has been called exactly once with the topic of each record that was there
\* when it started.
C18_IndexValidPublishedOnce ==
  /\ publisher.pc = "read"
       => /\ Refers(publisher)
          /\ KeyOf(params[publisher.index + 1])
               = <<publisher.parameter, publisher.measure>>
  /\ \A t \in Threads :
       (setters[t].pc = "write" /\ setters[t].index >= 0) => Refers(setters[t])
  /\ publisher.pc = "done"
       => \A j \in 1..publisher.start :
            Cardinality({k \in 1..Len(publisher.log) :
                           publisher.log[k].topic
                             = StateTopic(params[j].parameter,
                                          params[j].measure)}) = 1

\* publish_status has returned after publishing the record it started with
\* and the record set_param appended while it ran.
C18_Witness ==
  /\ publisher.pc = "done"
  /\ publisher.start = 1
  /\ Len(params) = 2
  /\ Len(publisher.log) = 2

=============================================================================
